---- MODULE Spec2Model ----
(***************************************************************************)
(* A model of the DSA judge engine (rust-backend): Judge::judge driving    *)
(* Executor::execute against a child process, its three pipes and the      *)
(* tasks spawned per run.                                                  *)
(*                                                                         *)
(* Strings are sequences of one-character strings.  Durations are not      *)
(* modelled: the time limit is the event TimeoutFires, which may happen    *)
(* at any moment the engine is suspended in timeout(child.wait()) and the  *)
(* child has not exited.  The telemetry fields (execution_time,            *)
(* memory_usage, compile_time_ms, executable_size_bytes) are left out.     *)
(***************************************************************************)
EXTENDS Integers, Sequences, FiniteSets, TLC

\* ------------------------------------------------------------------ bounds
\* Capacity of an OS pipe buffer, in characters.
PipeCap == 1
\* Largest number of test cases in a request.
MaxTests == 2
\* Judge instances (engine processes) sharing the cache directory.
NumJudges == 2
\* Times the judge loop spawns the executable compile returned.
RunsPerSubmission == 2
\* Longest string given to the normalization.
MaxOutputLen == 4
\* Lines a serving session receives.
MaxLines == 2
\* Calls of compile_files and advances of the clock.
MaxCalls == 3
MaxTicks == 3

\* ------------------------------------------------------------- characters
LF == "\n"
CR == "\r"
SP == " "
TAB == "\t"
\* A whitespace test that leaves out the carriage return.
IsWhitespace_NoCr(c) == c \in {SP, TAB, LF}

\* str::trim / split_whitespace use char::is_whitespace.
IsWhitespace(c) == c \in {SP, TAB, LF, CR}

\* ------------------------------------------------------------ string ops
\* str::replace("\r\n", "\n")
RECURSIVE ReplaceCrLf(_)
ReplaceCrLf(s) ==
    IF s = <<>> THEN <<>>
    ELSE IF Len(s) >= 2 /\ s[1] = CR /\ s[2] = LF
         THEN <<LF>> \o ReplaceCrLf(SubSeq(s, 3, Len(s)))
         ELSE <<s[1]>> \o ReplaceCrLf(Tail(s))

\* Index of the first LF of s, 0 when there is none.
FirstLf(s) ==
    IF \E k \in 1..Len(s) : s[k] = LF
    THEN CHOOSE k \in 1..Len(s) : s[k] = LF /\ \A j \in 1..(k - 1) : s[j] # LF
    ELSE 0

\* str::lines(): split after every "\n"; a line that ended in "\n" loses it
\* and then one "\r" before it; a last line without "\n" is kept as it is.
RECURSIVE Lines(_)
Lines(s) ==
    IF s = <<>> THEN <<>>
    ELSE LET k == FirstLf(s) IN
         IF k = 0 THEN <<s>>
         ELSE LET body == SubSeq(s, 1, k - 1)
                  line == IF body # <<>> /\ body[Len(body)] = CR
                          THEN SubSeq(body, 1, Len(body) - 1) ELSE body
              IN <<line>> \o Lines(SubSeq(s, k + 1, Len(s)))

RECURSIVE TrimStart(_)
TrimStart(s) ==
    IF s # <<>> /\ IsWhitespace(s[1]) THEN TrimStart(Tail(s)) ELSE s

\* A trim that removes one trailing whitespace character only.
TrimEnd_Once(s) ==
    IF s # <<>> /\ IsWhitespace(s[Len(s)]) THEN SubSeq(s, 1, Len(s) - 1) ELSE s

RECURSIVE TrimEnd(_)
TrimEnd(s) ==
    IF s # <<>> /\ IsWhitespace(s[Len(s)])
    THEN TrimEnd(SubSeq(s, 1, Len(s) - 1)) ELSE s

\* str::trim()
Trim(s) == TrimEnd(TrimStart(s))

\* Length of the longest prefix of s without whitespace.
RECURSIVE WordLen(_)
WordLen(s) ==
    IF s = <<>> \/ IsWhitespace(s[1]) THEN 0 ELSE 1 + WordLen(Tail(s))

\* str::split_whitespace(): the maximal runs of non-whitespace.
RECURSIVE SplitWhitespace(_)
SplitWhitespace(s) ==
    LET t == TrimStart(s) IN
    IF t = <<>> THEN <<>>
    ELSE LET n == WordLen(t) IN
         <<SubSeq(t, 1, n)>> \o SplitWhitespace(SubSeq(t, n + 1, Len(t)))

\* [T]::join(sep)
RECURSIVE Join(_, _)
Join(parts, sep) ==
    IF parts = <<>> THEN <<>>
    ELSE IF Len(parts) = 1 THEN parts[1]
    ELSE parts[1] \o sep \o Join(Tail(parts), sep)

CollapseLine(line) == Join(SplitWhitespace(line), <<SP>>)

\* lines().map(collapse) and lines().map(trim)
CollapseLines(ls) == [k \in 1..Len(ls) |-> CollapseLine(ls[k])]

TrimLines(ls) == [k \in 1..Len(ls) |-> Trim(ls[k])]

\* Judge::normalize_output_with
normalize_output_with(output, opts) ==
    LET s1 == IF opts.normalize_crlf THEN ReplaceCrLf(output) ELSE output
        s2 == IF opts.ignore_extra_whitespace
              THEN Join(CollapseLines(Lines(s1)), <<LF>>)
              ELSE s1
    IN Trim(Join(TrimLines(Lines(s2)), <<LF>>))


\* ------------------------------------------------------------ data model
\* Option<String>
None == [some |-> FALSE, text |-> <<>>]
Some(t) == [some |-> TRUE, text |-> t]

\* The executor's fixed error text, one token of the alphabet: a program can
\* write the same text to its stderr.
TimeLimitExceeded == <<"Time limit exceeded">>
ProcessError == <<"Process error: wait failed">>
FailedToStart == <<"Failed to start process">>
FailedToWrite == <<"Failed to write to stdin">>

\* anyhow::Error Display behind format!("Execution error: {}", e)
ExecutionError(e) == <<"Execution error: ">> \o e

\* Result<ExecutionResult>: Ok(ExecutionResult{..}) or Err(e)
OkResult(success, output, error) ==
    [ok |-> TRUE, success |-> success, output |-> output, error |-> error, err |-> <<>>]
ErrResult(e) ==
    [ok |-> FALSE, success |-> FALSE, output |-> <<>>, error |-> None, err |-> e]
NoResult == ErrResult(<<>>)

\* ------------------------------------------- the submitted program (child)
\* A compiled executable is the list of operations its process performs.
Op(o, c) == [op |-> o, c |-> c]
ReadAll == Op("readall", "")
CloseIn == Op("closein", "")
Loop == Op("loop", "")
Exit(code) == Op("exit", IF code = 0 THEN "0" ELSE "1")
Out(c) == Op("out", c)
Err(c) == Op("err", c)

\* reads its input, prints the answer, exits 0
ProgEcho == <<ReadAll, Out("a"), Exit(0)>>
\* never reads, never exits
ProgSpin == <<Loop>>
\* prints more than a pipe buffer holds before it reads its input
ProgOutFirst == [k \in 1..(PipeCap + 1) |-> Out("a")] \o <<ReadAll, Exit(0)>>
\* ignores its input, prints a wrong answer, exits 0
ProgIgnoreInput == <<Out("b"), Exit(0)>>
\* prints the answer, complains on stderr, exits 1
ProgCrash == <<ReadAll, Out("a"), Err("e"), Exit(1)>>
\* exits 1 with the executor's own timeout text on stderr
ProgFakeTle == <<ReadAll, Err("Time limit exceeded"), Exit(1)>>
\* exits 1 silently
ProgSilentFail == <<ReadAll, Exit(1)>>
\* prints the answer, writes to stderr, exits 0
ProgWarn == <<ReadAll, Out("a"), Err("e"), Exit(0)>>
\* closes its stdin and never exits
ProgCloseSpin == <<CloseIn, Loop>>
\* reads its input, prints the answer and never exits
ProgOutSpin == <<ReadAll, Out("a"), Loop>>

Programs ==
    {ProgEcho, ProgSpin, ProgOutFirst, ProgIgnoreInput, ProgCrash, ProgFakeTle,
     ProgSilentFail, ProgWarn, ProgCloseSpin, ProgOutSpin}

\* ---------------------------------------------------------- the requests
\* Input lengths: empty, fits the pipe buffer, exceeds the pipe buffer.
InputLens == {0, 1, PipeCap + 1}
ExpectedOutputs == {<<>>, <<"a", LF>>}
TestCases == [input : InputLens, expected_output : ExpectedOutputs]
TestCaseLists == UNION {[1..n -> TestCases] : n \in 0..MaxTests}
\* one supported language, in a spelling that needs lower-casing, and one
\* unsupported
Languages == {"C++", "py"}
NormalizationOptions == [normalize_crlf : BOOLEAN, ignore_extra_whitespace : BOOLEAN]
\* The requests use #[serde(default)]: both options off.
RequestNormalizations ==
    {o \in NormalizationOptions : ~o.normalize_crlf /\ ~o.ignore_extra_whitespace}
JudgeRequests ==
    [language : Languages, test_cases : TestCaseLists, normalization : RequestNormalizations]

\* str::to_lowercase on the languages above
to_lowercase(l) == IF l = "C++" THEN "c++" ELSE l


\* ------------------------------------------------------- compile requests
\* if code.as_bytes().len() > 256 * 1024
SourceCeiling == 262144
\* if meta.len() > 64 * 1024 * 1024
ExecutableCeiling == 67108864

\* A source text: its length in bytes and what the toolchain makes of it
\* (exit status and size of the executable).  Distinct sources have distinct
\* SHA-1 digests; the digest is modelled by the name.
SrcGood == [name |-> "good", len |-> SourceCeiling, build |-> "ok",
            exe_len |-> ExecutableCeiling]
SrcBad == [name |-> "bad", len |-> 1, build |-> "error", exe_len |-> 0]
SrcHugeExe == [name |-> "huge", len |-> 1, build |-> "ok",
               exe_len |-> ExecutableCeiling + 1]
SrcTooLarge == [name |-> "large", len |-> SourceCeiling + 1, build |-> "ok",
                exe_len |-> 1]

CompileRequest(source, language) == [source |-> source, language |-> language]
CompileRequests ==
    {CompileRequest(SrcGood, "c"), CompileRequest(SrcGood, "C++"),
     CompileRequest(SrcBad, "c"), CompileRequest(SrcHugeExe, "C++"),
     CompileRequest(SrcTooLarge, "c"), CompileRequest(SrcGood, "py")}

Judges == 1..NumJudges

\* match request.language.to_lowercase().as_str()
dispatch_DefaultCpp(language) ==
    IF to_lowercase(language) = "c" THEN "c" ELSE "cpp"

dispatch(language) ==
    IF to_lowercase(language) = "c" THEN "c"
    ELSE IF to_lowercase(language) \in {"cpp", "c++"} THEN "cpp"
    ELSE "unsupported"

\* cache_dir.join(format!("{}_c.exe", hash)) / "{}_cpp.exe"
cache_path(source, suffix) == <<source.name, suffix>>
CachePaths == {cache_path(r.source, sfx) : r \in CompileRequests, sfx \in {"c", "cpp"}}

\* Result<String>
CompileOk(path) == [ok |-> TRUE, path |-> path, err |-> ""]
CompileErr(e) == [ok |-> FALSE, path |-> <<>>, err |-> e]
NoCompileResult == [ok |-> FALSE, path |-> <<>>, err |-> "none"]

\* JudgeResponse without its result
JudgeResponse(success, status, has_result) ==
    [success |-> success, status |-> status, has_result |-> has_result]
NoJudgeResponse == JudgeResponse(FALSE, "None", FALSE)

\* What a compile call has done so far (history).
NoHistory ==
    [lookup |-> FALSE, wrote_source |-> FALSE, invoked |-> FALSE,
     copy_failed |-> FALSE, after_success |-> FALSE, after_stored |-> FALSE,
     at_return |-> "none"]

\* Strings over one ordinary character and the four whitespace characters.
Chars == {"a", SP, TAB, CR, LF}
Strings == UNION {[1..n -> Chars] : n \in 0..MaxOutputLen}


\* ------------------------------------------------------------------ state
VARIABLES
    \* Judge::judge
    jpc,                \* "start" | "tests" | "done"
    request,            \* the JudgeRequest
    exe,                \* the executable the compiler returned: its program
    test_case_results,  \* Vec<TestCaseResult>
    response,           \* the JudgeResponse, once jpc = "done"
    attempted,          \* history: the test_case_id of every execute call
    observed,           \* history: what each child had done when execute returned
    \* Executor::execute
    epc,                \* where execute is suspended
    remaining,          \* input not yet written by write_all
    stdin_w,            \* the engine still holds child.stdin (write end open)
    wait_result,        \* "none" | "exit" | "timeout" | "err": arm of the match
    stdout_task,        \* "none" | "running" | "done" | "joined"
    stderr_task,
    stdout_buf,         \* what the drain task has read
    stderr_buf,
    sampler,            \* "none" | "running" | "done" | "joined"
    running,            \* the AtomicBool the sampler polls
    eresult,            \* what execute returned, once epc = "returned"
    \* the child process
    child,              \* "none" | "running" | "exited" | "reaped"
    killed,             \* the engine killed it
    exit_code,
    prog,               \* operations the child has still to perform
    stdin_closed,       \* the child closed its own stdin
    stdin_pipe,         \* characters buffered in the stdin pipe
    stdout_pipe,        \* characters buffered in the stdout pipe
    stderr_pipe,
    \* Compiler::compile_c / compile_cpp, one call per Judge instance
    cpc,                \* per instance: where judge / compile is
    creq,               \* per instance: its request (source, language)
    gcc,                \* per instance: the toolchain process it started
    cresult,            \* per instance: what compile returned
    cresp,              \* per instance: the JudgeResponse
    runs,               \* per instance: outcome of each spawn of the executable
    chist,              \* per instance, history: what the compile call did
    cache,              \* the shared dsa_judge_cache directory
    toolchain,          \* gcc / g++ can be launched
    succeeded,          \* history: keys some compile has returned Ok for
    stored,             \* history: keys some compile has copied into the cache
    \* Judge::normalize_output_with applied twice
    npc,                \* "input" | "once" | "twice"
    norm_in,            \* the string
    norm_opts,          \* the NormalizationOptions
    norm_once,          \* normalize(s)
    norm_twice,         \* normalize(normalize(s))
    \* Judge::new / Sandbox, per Judge instance
    sjudge,             \* per instance: life of the Judge value
    sdir,               \* per instance: the sandbox working directory on disk
    \* run_stdio
    lines,              \* the lines stdin will deliver
    pos,                \* number of lines taken from stdin
    sout,               \* the response lines written to stdout
    srv,                \* "serving" | "ended"
    \* interactive::compile_files and the run-artifacts in temp_dir
    now,                \* SystemTime::now(), seconds
    tmp_files,          \* the dsa-run-* files: counter and modification time
    run_counter,        \* RUN_COUNTER
    ticks,              \* clock advances so far
    last_call           \* history: what the last compile_files call did

judgeVars == <<jpc, request, exe, test_case_results, response, attempted, observed>>
taskVars == <<stdout_task, stderr_task, stdout_buf, stderr_buf, sampler, running>>
engineVars == <<epc, remaining, stdin_w, wait_result, eresult>>
childVars == <<child, killed, exit_code, prog, stdin_closed, stdin_pipe, stdout_pipe, stderr_pipe>>
compileVars == <<cpc, creq, gcc, cresult, cresp, runs, chist, cache, toolchain,
                 succeeded, stored>>
normVars == <<npc, norm_in, norm_opts, norm_once, norm_twice>>
sandboxVars == <<sjudge, sdir>>
serveVars == <<lines, pos, sout, srv>>
sweepVars == <<now, tmp_files, run_counter, ticks, last_call>>
vars == <<judgeVars, engineVars, taskVars, childVars, compileVars, normVars,
          sandboxVars, serveVars, sweepVars>>

\* f64 score: (num / den) * 100, NaN when 0.0 / 0.0
Score(num, den) == [nan |-> den = 0, num |-> num, den |-> den]

\* JudgeResponse; result: None is has_result = FALSE
Response(success, status, has_result, results, passed, score) ==
    [success |-> success, status |-> status, has_result |-> has_result,
     test_case_results |-> results, total_test_cases |-> Len(results),
     passed_test_cases |-> passed, score |-> score]
NoResponse == Response(FALSE, "None", FALSE, <<>>, 0, Score(0, 1))

\* The executor and child state between two runs.
ExecutorIdle ==
    /\ epc = "idle" /\ remaining = 0 /\ stdin_w = FALSE /\ wait_result = "none"
    /\ stdout_task = "none" /\ stderr_task = "none"
    /\ stdout_buf = <<>> /\ stderr_buf = <<>>
    /\ sampler = "none" /\ running = FALSE
    /\ eresult = NoResult
    /\ child = "none" /\ killed = FALSE /\ exit_code = 0 /\ prog = <<>>
    /\ stdin_closed = FALSE /\ stdin_pipe = 0
    /\ stdout_pipe = <<>> /\ stderr_pipe = <<>>

\* The executor and the child handle are dropped when execute has returned.
ResetExecutor ==
    /\ epc' = "idle" /\ remaining' = 0 /\ stdin_w' = FALSE /\ wait_result' = "none"
    /\ stdout_task' = "none" /\ stderr_task' = "none"
    /\ stdout_buf' = <<>> /\ stderr_buf' = <<>>
    /\ sampler' = "none" /\ running' = FALSE
    /\ eresult' = NoResult
    /\ child' = "none" /\ killed' = FALSE /\ exit_code' = 0 /\ prog' = <<>>
    /\ stdin_closed' = FALSE /\ stdin_pipe' = 0
    /\ stdout_pipe' = <<>> /\ stderr_pipe' = <<>>

\* StdDuration::from_secs(60 * 30)
RetentionSecs == 1800

\* A directory that does not exist.
NoDir == [exists |-> FALSE, entries |-> {}]

\* No call of compile_files has happened.
NoCall == [n |-> 0, outcome |-> "none", old_left |-> FALSE, young_removed |-> FALSE]

\* No Judge is being constructed, no session is served, no interactive
\* build has run.
SandboxIdle ==
    /\ sjudge = [i \in Judges |-> [state |-> "idle", secure |-> "unchecked"]]
    /\ sdir = [i \in Judges |-> NoDir]

ServeIdle == lines = <<>> /\ pos = 0 /\ sout = <<>> /\ srv = "idle"

SweepIdle ==
    /\ now = RetentionSecs /\ tmp_files = {} /\ run_counter = 0 /\ ticks = 0
    /\ last_call = NoCall

OthersIdle == SandboxIdle /\ ServeIdle /\ SweepIdle

\* No compile instance and no normalization is in progress.
CompileIdle ==
    /\ cpc = [i \in Judges |-> "done"]
    /\ creq = [i \in Judges |-> CompileRequest(SrcGood, "c")]
    /\ gcc = [i \in Judges |-> "none"]
    /\ cresult = [i \in Judges |-> NoCompileResult]
    /\ cresp = [i \in Judges |-> NoJudgeResponse]
    /\ runs = [i \in Judges |-> <<>>]
    /\ chist = [i \in Judges |-> NoHistory]
    /\ cache = [k \in CachePaths |-> "absent"]
    /\ toolchain = TRUE
    /\ succeeded = {}
    /\ stored = {}

NormIdle ==
    /\ npc = "idle" /\ norm_in = <<>>
    /\ norm_opts = [normalize_crlf |-> FALSE, ignore_extra_whitespace |-> FALSE]
    /\ norm_once = <<>> /\ norm_twice = <<>>

\* No judge request is in progress.
JudgeIdle ==
    /\ jpc = "idle"
    /\ request = [language |-> "c", test_cases |-> <<>>,
                  normalization |-> [normalize_crlf |-> FALSE,
                                     ignore_extra_whitespace |-> FALSE]]
    /\ exe = <<>>
    /\ test_case_results = <<>>
    /\ response = NoResponse
    /\ attempted = <<>>
    /\ observed = <<>>
    /\ ExecutorIdle

Init ==
    /\ jpc = "start"
    /\ request \in JudgeRequests
    /\ exe = <<>>
    /\ test_case_results = <<>>
    /\ response = NoResponse
    /\ attempted = <<>>
    /\ observed = <<>>
    /\ ExecutorIdle
    /\ CompileIdle
    /\ NormIdle
    /\ OthersIdle


\* ------------------------------------------------------------ Judge::judge
\* test_case_results.iter().filter(|r| r.passed).count()
passed_count(results) == Cardinality({k \in 1..Len(results) : results[k].passed})

\* (passed_count as f64 / test_case_results.len() as f64) * 100.0
score_of(results) == Score(passed_count(results), Len(results))

\* the if / else-if chain deriving OverallStatus
overall_status(results) ==
    IF passed_count(results) = Len(results) THEN "Ok"
    ELSE IF \E k \in 1..Len(results) :
                results[k].execution_result.error = Some(TimeLimitExceeded)
         THEN "Timeout"
    ELSE IF \E k \in 1..Len(results) :
                /\ results[k].execution_result.success = FALSE
                /\ results[k].execution_result.error.some
         THEN "RuntimeError"
    ELSE "Ok"

\* .unwrap_or_else(|e| ExecutionResult { success: false, output: "", error:
\* Some("Execution error: {e}"), .. })
unwrap_or_else(r) ==
    IF r.ok
    THEN [success |-> r.success, output |-> r.output, error |-> r.error]
    ELSE [success |-> FALSE, output |-> <<>>, error |-> Some(ExecutionError(r.err))]

\* let passed = actual_output == expected_output;
passed_of(execution_result, test_case, opts) ==
    normalize_output_with(execution_result.output, opts)
        = normalize_output_with(test_case.expected_output, opts)

\* the TestCaseResult pushed for test case i (0-based) of the request
test_case_result(i, test_case, execution_result, opts) ==
    [test_case_id |-> i,
     passed |-> passed_of(execution_result, test_case, opts),
     execution_result |-> execution_result,
     expected_output |-> test_case.expected_output,
     actual_output |-> execution_result.output]

\* The language dispatch and the compile step.  The compiler is a
\* collaborator here: it fails, or returns an executable (some program).
JudgeCompile ==
    /\ jpc = "start"
    /\ IF to_lowercase(request.language) \notin {"c", "cpp", "c++"}
       THEN /\ response' = Response(FALSE, "UnsupportedLanguage", FALSE, <<>>, 0, Score(0, 1))
            /\ jpc' = "done"
            /\ exe' = exe
       ELSE \/ /\ response' = Response(FALSE, "CompileError", FALSE, <<>>, 0, Score(0, 1))
               /\ jpc' = "done"
               /\ exe' = exe
            \/ /\ exe' \in Programs
               /\ jpc' = "tests"
               /\ response' = response
    /\ UNCHANGED <<request, test_case_results, attempted, observed,
                   engineVars, taskVars, childVars>>
    /\ UNCHANGED <<compileVars, normVars, sandboxVars, serveVars, sweepVars>>

\* What the child of the run had done when execute returned (history only),
\* for the runs in which spawn and wait themselves did not fail:
\* "timeout" when the time limit fired; otherwise "crash" when the process
\* exited non-zero by itself having written to stderr; "wrong_answer" /
\* "accepted" when it exited zero by itself having printed something else
\* than / exactly the expected output (under the request's normalization);
\* "other" in every other case.
Observation(test_case, opts) ==
    LET exited == child \in {"exited", "reaped"} /\ ~killed /\ wait_result # "err"
        printed == stdout_buf \o stdout_pipe
    IN IF wait_result = "timeout" THEN "timeout"
       ELSE IF exited /\ exit_code # 0 /\ stderr_buf \o stderr_pipe # <<>> THEN "crash"
       ELSE IF exited /\ exit_code = 0
            THEN (IF normalize_output_with(printed, opts)
                        = normalize_output_with(test_case.expected_output, opts)
                  THEN "accepted" ELSE "wrong_answer")
       ELSE "other"

\* A loop body that skips a failed run without recording it.
JudgeCollect_SkipFailed ==
    /\ jpc = "tests"
    /\ epc = "returned"
    /\ LET i == Len(test_case_results)
           test_case == request.test_cases[i + 1]
           execution_result == unwrap_or_else(eresult)
       IN /\ test_case_results' =
                IF execution_result.success
                THEN Append(test_case_results,
                       test_case_result(i, test_case, execution_result, request.normalization))
                ELSE test_case_results
          /\ observed' =
                IF execution_result.success
                THEN Append(observed, Observation(test_case, request.normalization))
                ELSE observed
    /\ ResetExecutor
    /\ UNCHANGED <<jpc, request, exe, response, attempted>>
    /\ UNCHANGED <<compileVars, normVars, sandboxVars, serveVars, sweepVars>>

\* The loop body after execute returned: unwrap, compare, push.
JudgeCollect ==
    /\ jpc = "tests"
    /\ epc = "returned"
    /\ LET i == Len(test_case_results)
           test_case == request.test_cases[i + 1]
           execution_result == unwrap_or_else(eresult)
       IN test_case_results' = Append(test_case_results,
              test_case_result(i, test_case, execution_result, request.normalization))
    /\ observed' = Append(observed,
           Observation(request.test_cases[Len(test_case_results) + 1], request.normalization))
    /\ ResetExecutor
    /\ UNCHANGED <<jpc, request, exe, response, attempted>>
    /\ UNCHANGED <<compileVars, normVars, sandboxVars, serveVars, sweepVars>>

\* After the loop: score, status, the response.
JudgeFinish ==
    /\ jpc = "tests"
    /\ epc = "idle"
    /\ Len(test_case_results) = Len(request.test_cases)
    /\ response' = Response(TRUE, overall_status(test_case_results), TRUE,
                            test_case_results, passed_count(test_case_results),
                            score_of(test_case_results))
    /\ jpc' = "done"
    /\ UNCHANGED <<request, exe, test_case_results, attempted, observed,
                   engineVars, taskVars, childVars>>
    /\ UNCHANGED <<compileVars, normVars, sandboxVars, serveVars, sweepVars>>


\* -------------------------------------------------------- Executor::execute
\* The read end of the stdin pipe is open while the child lives and has not
\* closed it.
StdinReadOpen == child = "running" /\ ~stdin_closed

\* Lines 44-91, run without suspension once write_all has returned: spawn the
\* sampler and the two drain tasks, then poll timeout(child.wait()) for the
\* first time.  Child::wait drops child.stdin before it waits.
StartTasksAndWait ==
    /\ sampler' = "running"
    /\ running' = TRUE
    /\ stdout_task' = "running"
    /\ stderr_task' = "running"
    /\ stdin_w' = FALSE
    /\ epc' = "wait"
    /\ UNCHANGED <<stdout_buf, stderr_buf, wait_result, eresult>>

\* The loop calls execute for the next test case: spawn the child, start
\* write_all(input).
ExecuteSpawn ==
    /\ jpc = "tests"
    /\ epc = "idle"
    /\ Len(test_case_results) < Len(request.test_cases)
    /\ LET input == request.test_cases[Len(test_case_results) + 1].input IN
       \/ \* spawn() fails: .context("Failed to start process")?
          /\ epc' = "returned"
          /\ eresult' = ErrResult(FailedToStart)
          /\ UNCHANGED <<remaining, stdin_w, wait_result, taskVars, childVars>>
       \/ \* spawned
          /\ child' = "running"
          /\ prog' = exe
          /\ UNCHANGED <<killed, exit_code, stdin_closed, stdin_pipe, stdout_pipe, stderr_pipe>>
          /\ remaining' = input
          /\ IF input = 0
             THEN StartTasksAndWait
             ELSE /\ epc' = "write_stdin"
                  /\ stdin_w' = TRUE
                  /\ UNCHANGED <<wait_result, eresult, taskVars>>
    /\ attempted' = Append(attempted, Len(test_case_results))
    /\ UNCHANGED <<jpc, request, exe, test_case_results, response, observed>>
    /\ UNCHANGED <<compileVars, normVars, sandboxVars, serveVars, sweepVars>>

Min(a, b) == IF a < b THEN a ELSE b

\* stdin.write_all(input).await: each write takes what the pipe has room
\* for; it is suspended while the pipe is full, and fails with EPIPE when
\* the read end is closed.
WriteStdin ==
    /\ epc = "write_stdin"
    /\ remaining > 0
    /\ IF ~StdinReadOpen
       THEN \* .context("Failed to write to stdin")?  (the child is dropped, not killed)
            /\ epc' = "returned"
            /\ eresult' = ErrResult(FailedToWrite)
            /\ UNCHANGED <<remaining, stdin_w, wait_result, taskVars, stdin_pipe>>
       ELSE LET n == Min(PipeCap - stdin_pipe, remaining) IN
            /\ n > 0
            /\ stdin_pipe' = stdin_pipe + n
            /\ remaining' = remaining - n
            /\ IF remaining = n
               THEN StartTasksAndWait
               ELSE UNCHANGED <<epc, stdin_w, wait_result, eresult, taskVars>>
    /\ UNCHANGED <<judgeVars, child, killed, exit_code, prog, stdin_closed, stdout_pipe, stderr_pipe>>
    /\ UNCHANGED <<compileVars, normVars, sandboxVars, serveVars, sweepVars>>

\* timeout(limit, child.wait()) = Ok(Ok(status)): the child exited and is reaped.
WaitExit ==
    /\ epc = "wait"
    /\ child = "exited"
    /\ child' = "reaped"
    /\ wait_result' = "exit"
    /\ epc' = "join_stdout"
    /\ UNCHANGED <<judgeVars, taskVars, remaining, stdin_w, eresult,
                   killed, exit_code, prog, stdin_closed, stdin_pipe, stdout_pipe, stderr_pipe>>
    /\ UNCHANGED <<compileVars, normVars, sandboxVars, serveVars, sweepVars>>

\* timeout(limit, child.wait()) = Ok(Err(e)): the arm returns at once.
WaitFail ==
    /\ epc = "wait"
    /\ wait_result' = "err"
    /\ epc' = "returned"
    /\ eresult' = OkResult(FALSE, <<>>, Some(ProcessError))
    /\ UNCHANGED <<judgeVars, taskVars, childVars, remaining, stdin_w>>
    /\ UNCHANGED <<compileVars, normVars, sandboxVars, serveVars, sweepVars>>

\* timeout(limit, child.wait()) = Err(Elapsed): the limit passed and the
\* child had not exited when the future was polled.
TimeoutFires ==
    /\ epc = "wait"
    /\ child = "running"
    /\ wait_result' = "timeout"
    /\ epc' = "kill"
    /\ UNCHANGED <<judgeVars, taskVars, childVars, remaining, stdin_w, eresult>>
    /\ UNCHANGED <<compileVars, normVars, sandboxVars, serveVars, sweepVars>>

\* A timeout arm that signals the child and does not wait for it.
KillChild_NoWait ==
    /\ epc = "kill"
    /\ child \in {"running", "exited"}
    /\ killed' = TRUE
    /\ epc' = "join_stdout"
    /\ UNCHANGED <<judgeVars, taskVars, remaining, stdin_w, wait_result, eresult,
                   child, exit_code, prog, stdin_closed, stdin_pipe, stdout_pipe, stderr_pipe>>
    /\ UNCHANGED <<compileVars, normVars, sandboxVars, serveVars, sweepVars>>

\* let _ = child.kill().await; let _ = child.wait().await;
\* kill() sends SIGKILL and waits for the child, so the child is reaped when
\* it returns, and the wait() after it returns at its first poll.
KillChild ==
    /\ epc = "kill"
    /\ child \in {"running", "exited"}
    /\ child' = "reaped"
    /\ killed' = TRUE
    /\ exit_code' = IF child = "running" THEN 9 ELSE exit_code
    /\ prog' = <<>>
    /\ stdin_pipe' = 0
    /\ epc' = "join_stdout"
    /\ UNCHANGED <<judgeVars, taskVars, remaining, stdin_w, wait_result, eresult,
                   stdin_closed, stdout_pipe, stderr_pipe>>
    /\ UNCHANGED <<compileVars, normVars, sandboxVars, serveVars, sweepVars>>

\* stdout_task.await
JoinStdout ==
    /\ epc = "join_stdout"
    /\ stdout_task = "done"
    /\ stdout_task' = "joined"
    /\ epc' = "join_stderr"
    /\ UNCHANGED <<judgeVars, childVars, remaining, stdin_w, wait_result, eresult,
                   stderr_task, stdout_buf, stderr_buf, sampler, running>>
    /\ UNCHANGED <<compileVars, normVars, sandboxVars, serveVars, sweepVars>>

\* stderr_task.await, then running.store(false)
JoinStderr ==
    /\ epc = "join_stderr"
    /\ stderr_task = "done"
    /\ stderr_task' = "joined"
    /\ running' = FALSE
    /\ epc' = "await_sampler"
    /\ UNCHANGED <<judgeVars, childVars, remaining, stdin_w, wait_result, eresult,
                   stdout_task, stdout_buf, stderr_buf, sampler>>
    /\ UNCHANGED <<compileVars, normVars, sandboxVars, serveVars, sweepVars>>

\* status.success()
status_success == exit_code = 0

\* A result that reports stderr whenever there is some.
exit_result_AlwaysStderr ==
    OkResult(status_success, stdout_buf,
             IF stderr_buf # <<>> THEN Some(stderr_buf) ELSE None)

\* The ExecutionResult of the Ok(Ok(status)) arm.
exit_result ==
    OkResult(status_success, stdout_buf,
             IF ~status_success /\ stderr_buf # <<>> THEN Some(stderr_buf) ELSE None)

\* The ExecutionResult of the Err(_) arm.
timeout_result == OkResult(FALSE, <<>>, Some(TimeLimitExceeded))

\* sampler.await, return the arm's result.
AwaitSampler ==
    /\ epc = "await_sampler"
    /\ sampler = "done"
    /\ sampler' = "joined"
    /\ eresult' = IF wait_result = "exit" THEN exit_result ELSE timeout_result
    /\ epc' = "returned"
    /\ UNCHANGED <<judgeVars, childVars, remaining, stdin_w, wait_result,
                   stdout_task, stderr_task, stdout_buf, stderr_buf, running>>
    /\ UNCHANGED <<compileVars, normVars, sandboxVars, serveVars, sweepVars>>

\* ----------------------------------------------------------- spawned tasks
\* s.read_to_end(&mut buf): each read takes what the pipe holds; the task is
\* done at end-of-stream (pipe empty and its write end closed, i.e. the
\* child is gone).
DrainStdout ==
    /\ stdout_task = "running"
    /\ epc # "returned"
    /\ IF stdout_pipe # <<>>
       THEN /\ stdout_buf' = stdout_buf \o stdout_pipe
            /\ stdout_pipe' = <<>>
            /\ UNCHANGED stdout_task
       ELSE /\ child # "running"
            /\ stdout_task' = "done"
            /\ UNCHANGED <<stdout_buf, stdout_pipe>>
    /\ UNCHANGED <<judgeVars, engineVars, stderr_task, stderr_buf, sampler, running,
                   child, killed, exit_code, prog, stdin_closed, stdin_pipe, stderr_pipe>>
    /\ UNCHANGED <<compileVars, normVars, sandboxVars, serveVars, sweepVars>>

DrainStderr ==
    /\ stderr_task = "running"
    /\ epc # "returned"
    /\ IF stderr_pipe # <<>>
       THEN /\ stderr_buf' = stderr_buf \o stderr_pipe
            /\ stderr_pipe' = <<>>
            /\ UNCHANGED stderr_task
       ELSE /\ child # "running"
            /\ stderr_task' = "done"
            /\ UNCHANGED <<stderr_buf, stderr_pipe>>
    /\ UNCHANGED <<judgeVars, engineVars, stdout_task, stdout_buf, sampler, running,
                   child, killed, exit_code, prog, stdin_closed, stdin_pipe, stdout_pipe>>
    /\ UNCHANGED <<compileVars, normVars, sandboxVars, serveVars, sweepVars>>

\* One turn of the sampler's while loop: it ends when running is false;
\* otherwise it samples the child's memory (a value the model leaves out)
\* and sleeps.
SamplerStep ==
    /\ sampler = "running"
    /\ epc # "returned"
    /\ sampler' = IF running THEN sampler ELSE "done"
    /\ UNCHANGED <<judgeVars, engineVars, childVars, stdout_task, stderr_task,
                   stdout_buf, stderr_buf, running>>
    /\ UNCHANGED <<compileVars, normVars, sandboxVars, serveVars, sweepVars>>

\* ---------------------------------------------------------------- the child
\* The child performs its next operation.
ChildStep ==
    /\ child = "running"
    /\ epc # "returned"
    /\ prog # <<>>
    /\ LET o == Head(prog) IN
       \/ /\ o.op = "readall"
          /\ IF stdin_pipe > 0
             THEN /\ stdin_pipe' = 0   \* read() takes what the pipe holds
                  /\ prog' = prog
             ELSE /\ ~stdin_w   \* end of input: the engine closed its end
                  /\ prog' = Tail(prog)
                  /\ stdin_pipe' = stdin_pipe
          /\ UNCHANGED <<child, exit_code, stdin_closed, stdout_pipe, stderr_pipe>>
       \/ /\ o.op = "closein"
          /\ stdin_closed' = TRUE
          /\ stdin_pipe' = 0
          /\ prog' = Tail(prog)
          /\ UNCHANGED <<child, exit_code, stdout_pipe, stderr_pipe>>
       \/ /\ o.op = "out"
          /\ Len(stdout_pipe) < PipeCap
          /\ stdout_pipe' = Append(stdout_pipe, o.c)
          /\ prog' = Tail(prog)
          /\ UNCHANGED <<child, exit_code, stdin_closed, stdin_pipe, stderr_pipe>>
       \/ /\ o.op = "err"
          /\ Len(stderr_pipe) < PipeCap
          /\ stderr_pipe' = Append(stderr_pipe, o.c)
          /\ prog' = Tail(prog)
          /\ UNCHANGED <<child, exit_code, stdin_closed, stdin_pipe, stdout_pipe>>
       \/ /\ o.op = "exit"
          /\ child' = "exited"
          /\ exit_code' = IF o.c = "0" THEN 0 ELSE 1
          /\ prog' = <<>>
          /\ stdin_pipe' = 0
          /\ UNCHANGED <<stdin_closed, stdout_pipe, stderr_pipe>>
    /\ UNCHANGED <<judgeVars, engineVars, taskVars, killed>>
    /\ UNCHANGED <<compileVars, normVars, sandboxVars, serveVars, sweepVars>>

\* ------------------------------------------------------------ specification
Next ==
    \/ JudgeCompile
    \/ ExecuteSpawn
    \/ WriteStdin
    \/ WaitExit
    \/ WaitFail
    \/ TimeoutFires
    \/ KillChild
    \/ JoinStdout
    \/ JoinStderr
    \/ AwaitSampler
    \/ DrainStdout
    \/ DrainStderr
    \/ SamplerStep
    \/ ChildStep
    \/ JudgeCollect
    \/ JudgeFinish

Spec == Init /\ [][Next]_vars


\* ------------------------------------------- Compiler::compile_c / _cpp
\* A lookup that never finds the entry.
cache_hit_Never(path) == FALSE

\* cache_path.exists()
cache_hit(path) == cache[path] # "absent"

\* code.as_bytes().len() > 256 * 1024
source_too_large(source) == source.len > SourceCeiling

\* meta.len() > 64 * 1024 * 1024
executable_too_large(source) == source.exe_len > ExecutableCeiling

\* A judge that goes on to the test cases whatever compile returned.
CompileReturns_RunAnyway(i, result, h) ==
    /\ cresult' = [cresult EXCEPT ![i] = result]
    /\ cpc' = [cpc EXCEPT ![i] = "tests"]
    /\ cresp' = cresp
    /\ succeeded' = IF result.ok THEN succeeded \cup {result.path} ELSE succeeded
    /\ chist' = [chist EXCEPT ![i] = h]

\* compile returns result to Judge::judge, whose match either keeps the path
\* for the test loop or returns the CompileError response.
CompileReturns(i, result, h) ==
    /\ cresult' = [cresult EXCEPT ![i] = result]
    /\ cpc' = [cpc EXCEPT ![i] = IF result.ok THEN "tests" ELSE "done"]
    /\ cresp' = [cresp EXCEPT ![i] =
                    IF result.ok THEN @ ELSE JudgeResponse(FALSE, "CompileError", FALSE)]
    /\ succeeded' = IF result.ok THEN succeeded \cup {result.path} ELSE succeeded
    /\ chist' = [chist EXCEPT ![i] = h]

\* Judge::judge from its start to the first suspension inside compile: the
\* language dispatch, the cache lookup, the size check, the source write
\* (into the instance's own temporary directory) and the toolchain spawn.
\* The messages are compile_c's; compile_cpp says g++ for gcc.
CompileStart(i) ==
    /\ cpc[i] = "start"
    /\ LET source == creq[i].source
           suffix == dispatch(creq[i].language)
           path == cache_path(source, suffix)
           h == [chist[i] EXCEPT !.lookup = TRUE,
                                 !.after_success = path \in succeeded,
                                 !.after_stored = path \in stored]
       IN IF suffix = "unsupported"
          THEN /\ cresp' = [cresp EXCEPT ![i] =
                               JudgeResponse(FALSE, "UnsupportedLanguage", FALSE)]
               /\ cpc' = [cpc EXCEPT ![i] = "done"]
               /\ UNCHANGED <<cresult, chist, gcc, succeeded>>
          ELSE IF cache_hit(path)
          THEN /\ CompileReturns(i, CompileOk(path), [h EXCEPT !.at_return = cache[path]])
               /\ UNCHANGED gcc
          ELSE IF source_too_large(source)
          THEN /\ CompileReturns(i, CompileErr("Source too large"), h)
               /\ UNCHANGED gcc
          ELSE IF ~toolchain
          THEN /\ CompileReturns(i, CompileErr("Failed to execute gcc"),
                                 [h EXCEPT !.wrote_source = TRUE])
               /\ UNCHANGED gcc
          ELSE /\ gcc' = [gcc EXCEPT ![i] = "running"]
               /\ cpc' = [cpc EXCEPT ![i] = "toolchain"]
               /\ chist' = [chist EXCEPT ![i] =
                               [h EXCEPT !.wrote_source = TRUE, !.invoked = TRUE]]
               /\ UNCHANGED <<cresult, cresp, succeeded>>
    /\ UNCHANGED <<creq, runs, cache, toolchain, stored>>
    /\ UNCHANGED <<judgeVars, engineVars, taskVars, childVars, normVars,
                   sandboxVars, serveVars, sweepVars>>

\* The toolchain process finishes (whether or not anyone still waits for it).
GccExit(i) ==
    /\ gcc[i] = "running"
    /\ gcc' = [gcc EXCEPT ![i] = "exited"]
    /\ UNCHANGED <<cpc, creq, cresult, cresp, runs, chist, cache, toolchain,
                   succeeded, stored>>
    /\ UNCHANGED <<judgeVars, engineVars, taskVars, childVars, normVars,
                   sandboxVars, serveVars, sweepVars>>

\* timeout(10 s, cmd.output()) = Err(Elapsed): .context("gcc timeout")?
\* The output future is dropped; the command was not built with
\* kill_on_drop, so the process is left as it is.
CompileTimeout(i) ==
    /\ cpc[i] = "toolchain"
    /\ gcc[i] = "running"
    /\ CompileReturns(i, CompileErr("gcc timeout"), chist[i])
    /\ UNCHANGED <<creq, gcc, runs, cache, toolchain, stored>>
    /\ UNCHANGED <<judgeVars, engineVars, taskVars, childVars, normVars,
                   sandboxVars, serveVars, sweepVars>>

\* cmd.output() returned: the status check, the executable size check, then
\* create_dir_all(cache_dir).ok() and the start of std::fs::copy, which
\* creates or truncates the cache entry; or the copy fails and the error is
\* discarded.
CompileOutput(i) ==
    /\ cpc[i] = "toolchain"
    /\ gcc[i] = "exited"
    /\ gcc' = [gcc EXCEPT ![i] = "reaped"]
    /\ LET source == creq[i].source
           path == cache_path(source, dispatch(creq[i].language))
       IN IF source.build # "ok"
          THEN /\ CompileReturns(i, CompileErr("Compilation failed"), chist[i])
               /\ UNCHANGED cache
          ELSE IF executable_too_large(source)
          THEN /\ CompileReturns(i, CompileErr("Executable too large"), chist[i])
               /\ UNCHANGED cache
          ELSE \/ /\ CompileReturns(i, CompileOk(path),
                                    [chist[i] EXCEPT !.copy_failed = TRUE,
                                                     !.at_return = cache[path]])
                  /\ UNCHANGED cache
               \/ /\ cache' = [cache EXCEPT ![path] = "partial"]
                  /\ cpc' = [cpc EXCEPT ![i] = "copying"]
                  /\ UNCHANGED <<cresult, cresp, chist, succeeded>>
    /\ UNCHANGED <<creq, runs, toolchain, stored>>
    /\ UNCHANGED <<judgeVars, engineVars, taskVars, childVars, normVars,
                   sandboxVars, serveVars, sweepVars>>

\* std::fs::copy has written the last byte and closed the entry; compile
\* returns Ok(cache_path).  The entry is whole once no other instance is
\* still writing it.
CopyDone(i) ==
    /\ cpc[i] = "copying"
    /\ LET path == cache_path(creq[i].source, dispatch(creq[i].language))
           entry == IF \E j \in Judges \ {i} :
                          /\ cpc[j] = "copying"
                          /\ cache_path(creq[j].source, dispatch(creq[j].language)) = path
                    THEN "partial" ELSE "complete"
       IN /\ cache' = [cache EXCEPT ![path] = entry]
          /\ stored' = stored \cup {path}
          /\ CompileReturns(i, CompileOk(path), [chist[i] EXCEPT !.at_return = entry])
    /\ UNCHANGED <<creq, gcc, runs, toolchain>>
    /\ UNCHANGED <<judgeVars, engineVars, taskVars, childVars, normVars,
                   sandboxVars, serveVars, sweepVars>>

\* One turn of the test loop: Executor::execute spawns the path compile
\* returned.  "ran": the whole executable ran; "failed": the file is missing
\* or is being written, so spawn fails or what runs is not the program.
RunTest(i) ==
    /\ cpc[i] = "tests"
    /\ Len(runs[i]) < RunsPerSubmission
    /\ runs' = [runs EXCEPT ![i] =
                   Append(@, IF cresult[i].ok /\ cache[cresult[i].path] = "complete"
                             THEN "ran" ELSE "failed")]
    /\ UNCHANGED <<cpc, creq, gcc, cresult, cresp, chist, cache, toolchain,
                   succeeded, stored>>
    /\ UNCHANGED <<judgeVars, engineVars, taskVars, childVars, normVars,
                   sandboxVars, serveVars, sweepVars>>

\* After the loop: the response carries a result; its status is derived from
\* the test results (JudgeFinish).
JudgeRespond(i) ==
    /\ cpc[i] = "tests"
    /\ Len(runs[i]) = RunsPerSubmission
    /\ \E status \in {"Ok", "RuntimeError", "Timeout"} :
          cresp' = [cresp EXCEPT ![i] = JudgeResponse(TRUE, status, TRUE)]
    /\ cpc' = [cpc EXCEPT ![i] = "done"]
    /\ UNCHANGED <<creq, gcc, cresult, runs, chist, cache, toolchain, succeeded, stored>>
    /\ UNCHANGED <<judgeVars, engineVars, taskVars, childVars, normVars,
                   sandboxVars, serveVars, sweepVars>>

\* Every instance is about to judge a request; the cache is empty.
CompileInit ==
    /\ cpc = [i \in Judges |-> "start"]
    /\ creq \in [Judges -> CompileRequests]
    /\ gcc = [i \in Judges |-> "none"]
    /\ cresult = [i \in Judges |-> NoCompileResult]
    /\ cresp = [i \in Judges |-> NoJudgeResponse]
    /\ runs = [i \in Judges |-> <<>>]
    /\ chist = [i \in Judges |-> NoHistory]
    /\ cache = [k \in CachePaths |-> "absent"]
    /\ toolchain \in BOOLEAN
    /\ succeeded = {}
    /\ stored = {}
    /\ JudgeIdle
    /\ NormIdle
    /\ OthersIdle

CompileNext ==
    \E i \in Judges :
        \/ CompileStart(i)
        \/ GccExit(i)
        \/ CompileTimeout(i)
        \/ CompileOutput(i)
        \/ CopyDone(i)
        \/ RunTest(i)
        \/ JudgeRespond(i)

CompileSpec == CompileInit /\ [][CompileNext]_vars

\* ------------------------------------------ normalization applied twice
NormalizeOnce ==
    /\ npc = "input"
    /\ norm_once' = normalize_output_with(norm_in, norm_opts)
    /\ npc' = "once"
    /\ UNCHANGED <<norm_in, norm_opts, norm_twice>>
    /\ UNCHANGED <<judgeVars, engineVars, taskVars, childVars, compileVars,
                   sandboxVars, serveVars, sweepVars>>

NormalizeTwice ==
    /\ npc = "once"
    /\ norm_twice' = normalize_output_with(norm_once, norm_opts)
    /\ npc' = "twice"
    /\ UNCHANGED <<norm_in, norm_opts, norm_once>>
    /\ UNCHANGED <<judgeVars, engineVars, taskVars, childVars, compileVars,
                   sandboxVars, serveVars, sweepVars>>

NormInit ==
    /\ npc = "input"
    /\ norm_in \in Strings
    /\ norm_opts \in NormalizationOptions
    /\ norm_once = <<>>
    /\ norm_twice = <<>>
    /\ JudgeIdle
    /\ CompileIdle
    /\ OthersIdle

NormNext == NormalizeOnce \/ NormalizeTwice

NormSpec == NormInit /\ [][NormNext]_vars


\* ================================================================== claims

\* C1: execute never blocks for good while it feeds stdin: whenever it is
\* suspended in write_all, something can still happen (the write, a step of
\* the child, the time limit).
C1_ExecuteNeverBlocksOnStdin == epc = "write_stdin" => ENABLED Next

\* C2: on the timeout arm the child is killed and reaped before the drain
\* tasks are joined, and execute returns only after both joins, with
\* success = false, empty output and error "Time limit exceeded".
C2_TimeoutKillsReapsJoins ==
    /\ (wait_result = "timeout"
          /\ epc \in {"join_stdout", "join_stderr", "await_sampler", "returned"})
       => (killed /\ child = "reaped")
    /\ (wait_result = "timeout" /\ epc = "returned")
       => /\ stdout_task = "joined"
          /\ stderr_task = "joined"
          /\ eresult.ok
          /\ eresult.success = FALSE
          /\ eresult.output = <<>>
          /\ eresult.error = Some(<<"Time limit exceeded">>)

\* C2 witness: execute has returned from the timeout arm of a child that had
\* printed, and the captured stdout is not in the result.
C2_Witness ==
    /\ epc = "returned"
    /\ wait_result = "timeout"
    /\ stdout_buf # <<>>
    /\ eresult.output = <<>>

\* C3: whenever execute has handed an outcome back, the child (if one was
\* spawned) has terminated and been reaped.
C3_NoResultWhileChildRuns == epc = "returned" => child \in {"none", "reaped"}

\* C4: once the process is spawned, execute returns Ok(ExecutionResult),
\* never Err, whatever the program does.
C4_ProgramFailureNeverErr == (epc = "returned" /\ child # "none") => eresult.ok

\* C5: a compiled submission in which a test case hit the time limit has
\* status Timeout.
C5_TimeoutStatus ==
    (jpc = "done" /\ response.has_result
       /\ \E k \in 1..Len(observed) :
            /\ observed[k] = "timeout"
            /\ response.test_case_results[k].execution_result.error
                 = Some(<<"Time limit exceeded">>))
    => response.status = "Timeout"

\* C6: a run whose process exited non-zero having written to stderr has
\* success = false and a non-empty error; a submission with such a run and
\* no run that timed out has status RuntimeError.
C6_CrashIsRuntimeError ==
    /\ (epc = "returned" /\ child \in {"exited", "reaped"} /\ ~killed
          /\ exit_code # 0 /\ stderr_buf \o stderr_pipe # <<>>)
       => /\ unwrap_or_else(eresult).success = FALSE
          /\ unwrap_or_else(eresult).error.some
          /\ unwrap_or_else(eresult).error.text # <<>>
    /\ (jpc = "done" /\ response.has_result
          /\ (\E k \in 1..Len(observed) : observed[k] = "crash")
          /\ (\A k \in 1..Len(observed) : observed[k] # "timeout"))
       => response.status = "RuntimeError"

\* The status the priority rule of C7 gives for a list of results.
C7_PriorityStatus(results) ==
    IF \A k \in 1..Len(results) : results[k].passed THEN "Ok"
    ELSE IF \E k \in 1..Len(results) :
              /\ results[k].execution_result.error.some
              /\ results[k].execution_result.error.text = <<"Time limit exceeded">>
         THEN "Timeout"
    ELSE IF \E k \in 1..Len(results) :
              /\ ~results[k].execution_result.success
              /\ results[k].execution_result.error.some
         THEN "RuntimeError"
    ELSE "Ok"

\* C7 (the rule alone): the status of a compiled submission is the one the
\* priority rule gives for its per-test results.
C7_StatusFollowsPriority ==
    (jpc = "done" /\ response.has_result)
    => response.status = C7_PriorityStatus(response.test_case_results)

\* C7: the status follows the priority rule, and a submission whose
\* processes all exit zero within the limit, one of them having printed a
\* wrong answer, has passed = false for that test, score < 100, status Ok.
C7_StatusByPriority ==
    (jpc = "done" /\ response.has_result)
    => /\ response.status = C7_PriorityStatus(response.test_case_results)
       /\ ((\A k \in 1..Len(observed) : observed[k] \in {"accepted", "wrong_answer"})
             /\ (\E k \in 1..Len(observed) : observed[k] = "wrong_answer"))
          => /\ \A k \in 1..Len(observed) :
                   observed[k] = "wrong_answer" => ~response.test_case_results[k].passed
             /\ ~response.score.nan
             /\ response.score.num < response.score.den
             /\ response.status = "Ok"

\* C8: a request with no test case never gets a SubmissionResult (no score
\* over zero test cases).
C8_EmptyRequestRejected ==
    (jpc = "done" /\ request.test_cases = <<>>) => ~response.has_result

\* C9: in a compiled submission's result the counts are those of the
\* results, score = passed / total * 100 lies in 0..100, and when every test
\* case passed the score is 100 and the status Ok.
C9_ScoreAndCounts ==
    (jpc = "done" /\ response.has_result)
    => LET results == response.test_case_results
           passed == Cardinality({k \in 1..Len(results) : results[k].passed})
       IN /\ response.passed_test_cases = passed
          /\ response.total_test_cases = Len(results)
          /\ ~response.score.nan
          /\ response.score.num = passed /\ response.score.den = Len(results)
          /\ 0 <= response.score.num /\ response.score.num <= response.score.den
          /\ (passed = Len(results))
             => (response.score.num = response.score.den /\ response.status = "Ok")

\* C10: after a successful compile execute is called once per test case, in
\* input order, and the response holds one result per test case, the i-th
\* with test_case_id i and the i-th expected output.
C10_OneResultPerTestInOrder ==
    /\ attempted = [k \in 1..Len(attempted) |-> k - 1]
    /\ Len(attempted) <= Len(request.test_cases)
    /\ (jpc = "done" /\ response.has_result)
       => /\ Len(attempted) = Len(request.test_cases)
          /\ Len(response.test_case_results) = Len(request.test_cases)
          /\ \A k \in 1..Len(request.test_cases) :
                /\ response.test_case_results[k].test_case_id = k - 1
                /\ response.test_case_results[k].expected_output
                     = request.test_cases[k].expected_output

\* C10 witness: a response with two results whose first run failed.
C10_Witness ==
    /\ jpc = "done"
    /\ response.has_result
    /\ Len(response.test_case_results) >= 2
    /\ ~response.test_case_results[1].execution_result.success
    /\ response.test_case_results[2].test_case_id = 1

\* ---------------------------------------------------- claims on the compiler
\* The request of instance i names a supported language.
Supported(i) == dispatch(creq[i].language) # "unsupported"

\* compile of instance i returned an error.
CompileFailedWith(i) == IF cresult[i].ok THEN "" ELSE cresult[i].err

\* C11: when compile fails, for whatever reason, the response is
\* success = false, no result, status CompileError, and the executable of the
\* submission is never spawned.
C11_CompileFailureNeverRuns ==
    \A i \in Judges :
        CompileFailedWith(i) \notin {"", "none"} =>
            /\ cpc[i] = "done"
            /\ cresp[i] = JudgeResponse(FALSE, "CompileError", FALSE)
            /\ runs[i] = <<>>

\* Two instances have failed to compile, one by the compile timeout and one
\* by the executable size ceiling.
C11_Witness ==
    \E i, j \in Judges :
        /\ CompileFailedWith(i) = "gcc timeout"
        /\ CompileFailedWith(j) = "Executable too large"
        /\ cpc[i] = "done" /\ cpc[j] = "done"
        /\ cresp[i].status = "CompileError" /\ cresp[j].status = "CompileError"

SameKey ==
    \A i, j \in Judges :
        /\ creq[i].source = creq[j].source
        /\ dispatch(creq[i].language) = dispatch(creq[j].language)
        /\ cresult[i].ok /\ cresult[j].ok
        => cresult[i].path = cresult[j].path

\* C13 as stated: same source and language, same cache key; and a compile
\* that starts after a compile of the same source and language has succeeded
\* returns the same path and starts no toolchain process.
C13_LaterCompileSkipsToolchain ==
    /\ SameKey
    /\ \A i \in Judges :
          chist[i].after_success =>
              /\ ~chist[i].invoked
              /\ cresult[i].ok =>
                    cresult[i].path = cache_path(creq[i].source, dispatch(creq[i].language))

\* C13, amended: same source and language, same cache key; and a compile
\* that starts after a compile of the same source and language has succeeded
\* and its copy into the cache has succeeded returns the same path and
\* starts no toolchain process.
C13_LaterCompileSkipsToolchainOnceStored ==
    /\ SameKey
    /\ \A i \in Judges :
          chist[i].after_stored =>
              /\ ~chist[i].invoked
              /\ cresult[i].ok
              /\ cresult[i].path = cache_path(creq[i].source, dispatch(creq[i].language))

\* An instance built and stored the executable; a second one, started
\* afterwards with the same source and language, got the same path without
\* the toolchain.
C13_Witness ==
    \E i, j \in Judges :
        /\ i # j
        /\ chist[i].invoked /\ cresult[i].ok /\ ~chist[i].copy_failed
        /\ chist[j].after_stored /\ ~chist[j].invoked
        /\ cresult[j].ok /\ cresult[j].path = cresult[i].path

\* C14: when the toolchain succeeded, the executable is within the ceiling
\* and the copy into the cache failed, compile returns Ok with a path at
\* which an executable exists, and the runs of the submission execute it.
C14_CopyFailureStillRuns ==
    \A i \in Judges :
        chist[i].copy_failed =>
            /\ cresult[i].ok
            /\ chist[i].at_return # "absent"
            /\ \A k \in 1..Len(runs[i]) : runs[i][k] = "ran"

\* C15: with no copy failing, whatever the interleaving of lookups, builds
\* and copies, a compile that returns a path returns one whose entry is the
\* whole executable, and every run of it executes the whole executable.
C15_ConcurrentPopulationBenign ==
    (\A j \in Judges : ~chist[j].copy_failed) =>
        \A i \in Judges :
            cresult[i].ok =>
                /\ chist[i].at_return = "complete"
                /\ \A k \in 1..Len(runs[i]) : runs[i][k] = "ran"

\* C16: a source above the ceiling is rejected, and nothing on disk has been
\* looked at or written for it: no cache lookup, no source write, no
\* toolchain process.
C16_OversizeRejectedBeforeDisk ==
    \A i \in Judges :
        (Supported(i) /\ source_too_large(creq[i].source) /\ cpc[i] # "start") =>
            /\ CompileFailedWith(i) = "Source too large"
            /\ ~chist[i].lookup /\ ~chist[i].wrote_source /\ ~chist[i].invoked

\* C17: a submission rejected for the size of its source or of its
\* executable gets a response whose status is not CompileError.
C17_PolicyRejectionDistinct ==
    \A i \in Judges :
        CompileFailedWith(i) \in {"Source too large", "Executable too large"} =>
            cresp[i].status # "CompileError"

\* C18: once compile has returned the timeout failure, the toolchain process
\* it started is not running, and the response is CompileError.
C18_CompileTimeoutKillsToolchain ==
    \A i \in Judges :
        CompileFailedWith(i) = "gcc timeout" =>
            /\ gcc[i] # "running"
            /\ cresp[i].status = "CompileError"

\* C19: when the toolchain cannot be launched the response carries EnvError.
C19_MissingToolchainIsEnvError ==
    \A i \in Judges :
        CompileFailedWith(i) = "Failed to execute gcc" =>
            cresp[i].status = "EnvError"

\* ------------------------------------------------ claims on normalization
\* C20: for each of the four option combinations, normalizing a normalized
\* string gives the same string.
C20_NormalizationIdempotent == npc = "twice" => norm_twice = norm_once

\* A string with leading blanks, a tab and a CR LF, normalized twice with
\* both options on.
C20_Witness ==
    /\ npc = "twice"
    /\ norm_in = <<SP, "a", TAB, CR>>
    /\ norm_opts.normalize_crlf /\ norm_opts.ignore_extra_whitespace
    /\ norm_once = <<"a">>

\* ------------------------------------------- further claims on the executor
\* What a program writes to a stream (op "out" or "err") when it runs to
\* its exit.
RECURSIVE Written(_, _)
Written(p, op) ==
    IF p = <<>> \/ Head(p).op = "exit" THEN <<>>
    ELSE IF Head(p).op = op THEN <<Head(p).c>> \o Written(Tail(p), op)
    ELSE Written(Tail(p), op)

\* C25: whenever execute returns, no task spawned for the run is alive: the
\* sampler has been stopped and awaited and both drain tasks are joined.
C25_TasksJoinedOnReturn ==
    epc = "returned" =>
        /\ sampler \in {"none", "joined"}
        /\ stdout_task \in {"none", "joined"}
        /\ stderr_task \in {"none", "joined"}
        /\ ~running

\* C26: after a normal exit within the limit execute returns success = the
\* exit status is success, output = all the child wrote to stdout, and
\* error = the stderr text exactly when the exit failed and stderr is not
\* empty.
C26_NormalExitResult ==
    (epc = "returned" /\ wait_result = "exit") =>
        LET out == Written(exe, "out")
            err == Written(exe, "err")
        IN eresult = OkResult(exit_code = 0, out,
                              IF exit_code # 0 /\ err # <<>> THEN Some(err) ELSE None)

\* execute has returned for a program that printed, wrote to stderr and
\* exited zero: success, the output, no error.
C26_Witness ==
    /\ epc = "returned" /\ wait_result = "exit"
    /\ exe = ProgWarn
    /\ eresult = OkResult(TRUE, <<"a">>, None)

\* C27: in every SubmissionResult a test case with passed = true has
\* execution_result.success = true.
C27_PassedImpliesSuccess ==
    (jpc = "done" /\ response.has_result) =>
        \A k \in 1..Len(response.test_case_results) :
            response.test_case_results[k].passed =>
                response.test_case_results[k].execution_result.success

\* C28: a response has status Timeout only if the child of some test case
\* was still running when the limit elapsed and was killed.
C28_TimeoutOnlyWhenTimedOut ==
    (jpc = "done" /\ response.status = "Timeout") =>
        \E k \in 1..Len(observed) : observed[k] = "timeout"

\* -------------------------------------- further claims on normalization
\* C29: normalize_crlf changes nothing: with either value of
\* ignore_extra_whitespace, the normalized string is the same with
\* normalize_crlf on and off.
C29_NormalizeCrlfNoEffect ==
    npc \in {"once", "twice"} =>
        norm_once = normalize_output_with(norm_in,
                        [norm_opts EXCEPT !.normalize_crlf = ~@])

\* A string with a CR LF line ending and a CR before it, normalized with
\* normalize_crlf off.
C29_Witness ==
    /\ npc = "once"
    /\ norm_in = <<"a", CR, CR, LF>>
    /\ ~norm_opts.normalize_crlf /\ ~norm_opts.ignore_extra_whitespace
    /\ norm_once = <<"a">>

\* ------------------------------------------------- Judge::new and Sandbox
\* A cleanup that removes the directory only when it is empty.
cleanup_NonRecursive(dir) == IF dir.exists /\ dir.entries = {} THEN NoDir ELSE dir

\* Sandbox::cleanup, called by Drop: remove_dir_all when the directory exists.
cleanup(dir) == IF dir.exists THEN NoDir ELSE dir

\* Sandbox::new: tempfile::tempdir() fails, or the directory is created and
\* kept (keep() turns off the removal done by TempDir).
SandboxNew(i) ==
    /\ sjudge[i].state = "new"
    /\ \/ /\ sjudge' = [sjudge EXCEPT ![i].state = "failed_new"]
          /\ sdir' = sdir
       \/ /\ sjudge' = [sjudge EXCEPT ![i].state = "setup_input"]
          /\ sdir' = [sdir EXCEPT ![i] = [exists |-> TRUE, entries |-> {}]]
    /\ UNCHANGED <<judgeVars, engineVars, taskVars, childVars, compileVars, normVars,
                   serveVars, sweepVars>>

\* Sandbox::setup, first create_dir_all; when it fails Judge::new returns
\* the error and the local Sandbox is dropped.
SetupInput(i) ==
    /\ sjudge[i].state = "setup_input"
    /\ \/ /\ sjudge' = [sjudge EXCEPT ![i].state = "setup_output"]
          /\ sdir' = [sdir EXCEPT ![i].entries = @ \cup {"input"}]
       \/ /\ sjudge' = [sjudge EXCEPT ![i].state = "failed_setup"]
          /\ sdir' = [sdir EXCEPT ![i] = cleanup(@)]
    /\ UNCHANGED <<judgeVars, engineVars, taskVars, childVars, compileVars, normVars,
                   serveVars, sweepVars>>

\* Sandbox::setup, second create_dir_all; then Ok(Self { sandbox }).
SetupOutput(i) ==
    /\ sjudge[i].state = "setup_output"
    /\ \/ /\ sjudge' = [sjudge EXCEPT ![i].state = "alive"]
          /\ sdir' = [sdir EXCEPT ![i].entries = @ \cup {"output"}]
       \/ /\ sjudge' = [sjudge EXCEPT ![i].state = "failed_setup"]
          /\ sdir' = [sdir EXCEPT ![i] = cleanup(@)]
    /\ UNCHANGED <<judgeVars, engineVars, taskVars, childVars, compileVars, normVars,
                   serveVars, sweepVars>>

\* Sandbox::is_secure
IsSecure(i) ==
    /\ sjudge[i].state \in {"setup_input", "setup_output", "alive"}
    /\ sjudge' = [sjudge EXCEPT ![i].secure = IF sdir[i].exists THEN "yes" ELSE "no"]
    /\ UNCHANGED sdir
    /\ UNCHANGED <<judgeVars, engineVars, taskVars, childVars, compileVars, normVars,
                   serveVars, sweepVars>>

\* The Judge goes out of scope: at the end of its owner, on an error
\* return, or while a panic unwinds.  Drop for Sandbox runs cleanup.
JudgeDrop(i) ==
    /\ sjudge[i].state = "alive"
    /\ \E how \in {"dropped", "error_return", "unwound"} :
          sjudge' = [sjudge EXCEPT ![i].state = how]
    /\ sdir' = [sdir EXCEPT ![i] = cleanup(@)]
    /\ UNCHANGED <<judgeVars, engineVars, taskVars, childVars, compileVars, normVars,
                   serveVars, sweepVars>>

SandboxInit ==
    /\ sjudge = [i \in Judges |-> [state |-> "new", secure |-> "unchecked"]]
    /\ sdir = [i \in Judges |-> NoDir]
    /\ JudgeIdle /\ CompileIdle /\ NormIdle /\ ServeIdle /\ SweepIdle

SandboxNext ==
    \E i \in Judges :
        \/ SandboxNew(i)
        \/ SetupInput(i)
        \/ SetupOutput(i)
        \/ IsSecure(i)
        \/ JudgeDrop(i)

SandboxSpec == SandboxInit /\ [][SandboxNext]_vars

Ids == {"none", "a", "b"}

\* The lines stdin can deliver: requests that parse as a StdioRequest (an
\* execute request may carry neither code nor files), lines that do not
\* parse ("malformed": invalid JSON, unknown action, missing fields), blank
\* lines, and lines for which the line iterator returns Err ("undecodable").
WellFormedKinds == {"ping", "version", "env_check", "judge", "execute", "execute_nothing"}
Line(kind, id) == [kind |-> kind, id |-> id]
InputLines ==
    {Line(kind, id) : kind \in WellFormedKinds \cup {"malformed"}, id \in Ids}
        \cup {Line("blank", "none"), Line("undecodable", "none")}
Sessions == UNION {[1..n -> InputLines] : n \in 0..MaxLines}

\* StdioResponse written for the line just taken (the line number is
\* history).
StdioResponse(id, success) == [id |-> id, success |-> success, line |-> pos + 1]

\* One turn of the while loop for a line of the given kind: take the line,
\* writeln! the response, flush.
Respond(kind, resp) ==
    /\ srv = "serving"
    /\ pos < Len(lines)
    /\ lines[pos + 1].kind = kind
    /\ pos' = pos + 1
    /\ sout' = Append(sout, resp)
    /\ UNCHANGED <<lines, srv>>
    /\ UNCHANGED <<judgeVars, engineVars, taskVars, childVars, compileVars, normVars,
                   sandboxVars, sweepVars>>

\* The id of the line about to be taken.
NextId == IF pos < Len(lines) THEN lines[pos + 1].id ELSE "none"

ServePing == Respond("ping", StdioResponse(NextId, TRUE))

ServeVersion == Respond("version", StdioResponse(NextId, TRUE))

\* check_environment() is Ok or Err
ServeEnvCheck == \E ok \in BOOLEAN : Respond("env_check", StdioResponse(NextId, ok))

\* judge.judge(request).await is Ok(val) or Err(e)
ServeJudge == \E ok \in BOOLEAN : Respond("judge", StdioResponse(NextId, ok))

\* compile_files(..).await is Ok(result) or Err(e)
ServeExecute == \E ok \in BOOLEAN : Respond("execute", StdioResponse(NextId, ok))

\* neither files nor code: the error response, then continue
ServeExecuteNothing == Respond("execute_nothing", StdioResponse(NextId, FALSE))

\* Err(e) of serde_json::from_str: id None, "invalid request: .."
ServeMalformed == Respond("malformed", StdioResponse("none", FALSE))

\* if line.trim().is_empty() { continue; }
ServeBlank ==
    /\ srv = "serving"
    /\ pos < Len(lines)
    /\ lines[pos + 1].kind = "blank"
    /\ pos' = pos + 1
    /\ UNCHANGED <<lines, sout, srv>>
    /\ UNCHANGED <<judgeVars, engineVars, taskVars, childVars, compileVars, normVars,
                   sandboxVars, sweepVars>>

\* let line = match line { Ok(l) => l, Err(_) => break };
ServeUndecodable ==
    /\ srv = "serving"
    /\ pos < Len(lines)
    /\ lines[pos + 1].kind = "undecodable"
    /\ pos' = pos + 1
    /\ srv' = "ended"
    /\ UNCHANGED <<lines, sout>>
    /\ UNCHANGED <<judgeVars, engineVars, taskVars, childVars, compileVars, normVars,
                   sandboxVars, sweepVars>>

\* lines.next() is None: end of input, the loop ends.
ServeEnd ==
    /\ srv = "serving"
    /\ pos = Len(lines)
    /\ srv' = "ended"
    /\ UNCHANGED <<lines, pos, sout>>
    /\ UNCHANGED <<judgeVars, engineVars, taskVars, childVars, compileVars, normVars,
                   sandboxVars, sweepVars>>

ServeInit ==
    /\ lines \in Sessions
    /\ pos = 0
    /\ sout = <<>>
    /\ srv = "serving"
    /\ JudgeIdle /\ CompileIdle /\ NormIdle /\ SandboxIdle /\ SweepIdle

ServeNext ==
    \/ ServePing
    \/ ServeVersion
    \/ ServeEnvCheck
    \/ ServeJudge
    \/ ServeExecute
    \/ ServeExecuteNothing
    \/ ServeMalformed
    \/ ServeBlank
    \/ ServeUndecodable
    \/ ServeEnd

ServeSpec == ServeInit /\ [][ServeNext]_vars

\* The lines taken so far that are not blank.
Answerable == {k \in 1..pos : lines[k].kind # "blank"}

\* C22: each non-blank line taken has exactly one response, the responses
\* are in the order of the lines, a response to a well-formed request
\* carries its id, a blank line has none, and the loop ends only when every
\* line has been taken.
C22_OneResponsePerRequest ==
    /\ Len(sout) = Cardinality(Answerable)
    /\ \A n \in 1..Len(sout) :
          /\ sout[n].line \in Answerable
          /\ \A m \in 1..(n - 1) : sout[m].line < sout[n].line
          /\ lines[sout[n].line].kind \in WellFormedKinds =>
                sout[n].id = lines[sout[n].line].id
    /\ srv = "ended" => pos = Len(lines)

\* C23: every malformed line taken, one that cannot be decoded included, has
\* an error response with no id and success = false, and the loop ends only
\* when every line has been taken.
C23_MalformedLineKeepsSession ==
    /\ \A k \in 1..pos :
          lines[k].kind \in {"malformed", "undecodable"} =>
              \E n \in 1..Len(sout) :
                  sout[n] = [id |-> "none", success |-> FALSE, line |-> k]
    /\ srv = "ended" => pos = Len(lines)

\* ------------------------------------------- interactive::compile_files
\* let cutoff = SystemTime::now().checked_sub(30 min)
cutoff == now - RetentionSecs

\* A run-artifact the sweep removes: if modified < cutoff
Expired(f) == f.mtime < cutoff

\* clean_old_run_artifacts: the dsa-run-* files left in temp_dir
clean_old_run_artifacts(files) == {f \in files : ~Expired(f)}

\* The clock advances, by half a retention window or by a little more than
\* a whole one.
Tick ==
    /\ ticks < MaxTicks
    /\ \E dt \in {RetentionSecs \div 2, RetentionSecs + 1} : now' = now + dt
    /\ ticks' = ticks + 1
    /\ UNCHANGED <<tmp_files, run_counter, last_call>>
    /\ UNCHANGED <<judgeVars, engineVars, taskVars, childVars, compileVars, normVars,
                   sandboxVars, serveVars>>

\* compile_files returns before line 155: the language is not supported, no
\* source file is among the files, the compiler cannot be started, the
\* build times out, or the compiler exits non-zero.
CompileFilesFails ==
    /\ last_call.n < MaxCalls
    /\ \E outcome \in {"unsupported_language", "no_source_files", "compiler_not_started",
                       "timeout", "compile_error"} :
          last_call' = [n |-> last_call.n + 1, outcome |-> outcome,
                        old_left |-> \E f \in tmp_files : Expired(f),
                        young_removed |-> FALSE]
    /\ UNCHANGED <<now, tmp_files, run_counter, ticks>>
    /\ UNCHANGED <<judgeVars, engineVars, taskVars, childVars, compileVars, normVars,
                   sandboxVars, serveVars>>

\* The build succeeded: clean_old_run_artifacts(), next_run_path(), copy of
\* the executable to the new dsa-run-{ts}-{count} file.
CompileFilesBuilt ==
    /\ last_call.n < MaxCalls
    /\ LET kept == clean_old_run_artifacts(tmp_files)
           artifact == [count |-> run_counter, mtime |-> now]
       IN /\ tmp_files' = kept \cup {artifact}
          /\ last_call' = [n |-> last_call.n + 1, outcome |-> "built",
                           old_left |-> \E f \in kept \cup {artifact} : Expired(f),
                           young_removed |-> \E f \in tmp_files \ kept : ~Expired(f)]
    /\ run_counter' = run_counter + 1
    /\ UNCHANGED <<now, ticks>>
    /\ UNCHANGED <<judgeVars, engineVars, taskVars, childVars, compileVars, normVars,
                   sandboxVars, serveVars>>

SweepInit ==
    /\ now = RetentionSecs
    /\ tmp_files = {}
    /\ run_counter = 0
    /\ ticks = 0
    /\ last_call = NoCall
    /\ JudgeIdle /\ CompileIdle /\ NormIdle /\ SandboxIdle /\ ServeIdle

SweepNext == Tick \/ CompileFilesFails \/ CompileFilesBuilt

SweepSpec == SweepInit /\ [][SweepNext]_vars

\* C24: after every call of compile_files, whatever its outcome, no
\* run-artifact older than the retention window is left, and the call has
\* removed no run-artifact within the window.
C24_SweepOnEveryBuild ==
    last_call.n > 0 => (~last_call.old_left /\ ~last_call.young_removed)

====
